---------------------------- MODULE Spec2Model ----------------------------
(***************************************************************************)
(* SkyDrop airspace converter (utils/airspace/convert.py).                 *)
(*                                                                         *)
(* Three state machines share this module:                                 *)
(*   SpecPoint  dumpPoint: altitude sweep, the three compaction passes and *)
(*              the write of one point's record into the caller's buffer;  *)
(*   SpecDump   dump: the file skip, the quick emptiness check, the raster *)
(*              loop, interruption handling and the final write;           *)
(*   SpecCodec  the floor byte written by AirspaceVector.getBytes and the  *)
(*              decoding of it in main (--check).                          *)
(* Airspace.py and AirspaceVector.py are imported by convert.py; what their *)
(* methods do (GetMin, GetMax, the byte encoders) follows section 4.1 of   *)
(* the specification.                                                      *)
(***************************************************************************)
EXTENDS Integers, Sequences, FiniteSets, TLC

VARIABLES
    \* ---- dumpPoint ----
    avs,               \* the candidate AirspaceVectors of the point, in input order
    output,            \* the caller's buffer (bytes), 1-based here, 0-based in the code
    offset0,           \* the offset dumpPoint was called with
    offset,            \* the running offset of the write loops
    pc,                \* position inside dumpPoint
    h,                 \* the sweep altitude (None when undefined)
    sortedAirspaces,   \* height -> index of the chosen vector
    compactAirspaces,  \* height -> index of the chosen vector, after compaction
    written,           \* the buffer positions (0-based) assigned so far
    exitStatus,        \* None, or the status of sys.exit
    \* ---- dump ----
    dpc,               \* position inside dump
    world,             \* the geometry around the tile: which points see airspaces
    numPoints,         \* the raster resolution
    force,             \* the -f override
    fileExists,        \* os.path.isfile(filename)
    fileData,          \* the bytes of the file on disk (<<>> when absent or empty)
    f,                 \* TRUE while dump holds an open file object
    opened,            \* TRUE once this run has opened (created/truncated) the file
    dout,              \* dump's output buffer
    isEmpty,           \* dump's isEmpty flag
    qi,                \* index of the next quick-check point, 0 .. 99
    ri,                \* index of the next raster point, 0 .. numPoints^2 - 1
    calls,             \* number of dumpPoint calls made by this run
    fsOps,             \* number of file-system changes made by this run
    \* ---- codec ----
    cpc,               \* position of the codec round trip
    cFt,               \* floor altitude in feet
    cAGL,              \* floor reference: TRUE = AGL, FALSE = MSL
    cRaw,              \* the encoded byte
    cDec,              \* the decoded <<feet, isAGL>> or <<degrees, inside>>
    bDeg,              \* bearing in degrees
    bInside            \* the vector's inside flag

pointVars == <<avs, output, offset0, offset, pc, h, sortedAirspaces,
               compactAirspaces, written, exitStatus>>
dumpVars  == <<dpc, world, numPoints, force, fileExists, fileData, f, opened,
               dout, isEmpty, qi, ri, calls, fsOps>>
codecVars == <<cpc, cFt, cAGL, cRaw, cDec, bDeg, bInside>>
vars == <<pointVars, dumpVars, codecVars>>

(***************************************************************************)
(* Program constants and model bounds                                      *)
(***************************************************************************)
\* convert.py:51  levels = 5
levels == 5
\* convert.py:54  sizeof_level = 4
sizeof_level == 4

\* Python's None, for heights, indices and exit statuses
None == -1

\* Largest number of candidate vectors of a point
MaxAvs == 7
\* Number of level-sized cells of the buffer handed to dumpPoint
BufCells == 3
\* The cell of that buffer dumpPoint is asked to fill (0-based)
OffsetCell == 1
\* Altitude distance (ft) between neighbouring floor/ceiling breakpoints
AltStep == 500
\* The byte the caller's buffer holds before dumpPoint runs
Fill == 170

(***************************************************************************)
(* Helpers                                                                 *)
(***************************************************************************)
Min(S) == CHOOSE x \in S : \A y \in S : x <= y
Max(S) == CHOOSE x \in S : \A y \in S : x >= y

\* Python 3 round(a / b) for a >= 0, b > 0: round half to even
RoundDiv(a, b) ==
    LET q == a \div b
        r == a % b
    IN  IF 2 * r < b THEN q
        ELSE IF 2 * r > b THEN q + 1
        ELSE IF q % 2 = 0 THEN q ELSE q + 1

Clamp(x, lo, hi) == IF x < lo THEN lo ELSE IF x > hi THEN hi ELSE x

RECURSIVE SortedDesc(_)
SortedDesc(S) ==
    IF S = {} THEN <<>>
    ELSE LET m == Max(S) IN <<m>> \o SortedDesc(S \ {m})

RECURSIVE sorted(_)
\* Python sorted(d.keys()): the keys in ascending order
sorted(S) ==
    IF S = {} THEN <<>>
    ELSE LET m == Min(S) IN <<m>> \o sorted(S \ {m})

\* an empty dict
EmptyMap == [x \in {} |-> None]

(***************************************************************************)
(* Airspace / AirspaceVector accessors                                     *)
(***************************************************************************)
\* Altitudes are integers (feet); all the sweep needs of getMin/getMax is their
\* total order.
\* Airspace.getMin(): the floor altitude
GetMin(av) == av.floor
\* Airspace.getMax(): the ceiling altitude
GetMax(av) == av.ceil

\* AirspaceVector.getDistanceAsByte()
GetDistanceAsByte(av) == Clamp(RoundDiv(av.distance, 64), 0, 255)
\* AirspaceVector.getAngleAsByte()
GetAngleAsByte(av) == RoundDiv(av.angle, 3)

\* byte 0 / byte 1 of a level: altitude in 250 ft steps, +128 for AGL
EncodeAlt(ft, agl) == Clamp(RoundDiv(ft, 250), 0, 127) + (IF agl THEN 128 ELSE 0)

\* AirspaceVector.getBytes() of a vector that has an airspace
GetBytes(av) ==
    << EncodeAlt(av.floor, av.floorAGL),
       EncodeAlt(av.ceil, av.ceilAGL),
       GetAngleAsByte(av) + (IF av.inside THEN 128 ELSE 0),
       GetDistanceAsByte(av) >>

\* AirspaceVector().getBytes(): the empty descriptor
EmptyBytes == <<0, 0, 0, 0>>

(***************************************************************************)
(* The find* helpers of convert.py.  Lists of vectors are sequences of     *)
(* indices into vs; an index is the identity of the vector object.        *)
(***************************************************************************)
findAirspacesInHeight(vs, height) ==
    SelectSeq([i \in 1..Len(vs) |-> i],
              LAMBDA i : height >= GetMin(vs[i]) /\ height < GetMax(vs[i]))

findAirspacesInside(vs, list) ==
    SelectSeq(list, LAMBDA i : vs[i].inside)

findAirspacesNotInsideAll(vs, list) == list

findAirspacesNotInsideOrAny(vs, list) ==
    IF SelectSeq(list, LAMBDA i : ~vs[i].inside) = <<>>
    THEN list
    ELSE SelectSeq(list, LAMBDA i : ~vs[i].inside)

findAirspacesNotInside(vs, list) ==
    SelectSeq(list, LAMBDA i : ~vs[i].inside)

findLowestHeightInAirspaces(vs) ==
    IF vs = <<>> THEN None ELSE Min({GetMin(vs[i]) : i \in 1..Len(vs)})

findHighestHeightInAirspaces(vs) ==
    IF vs = <<>> THEN None ELSE Max({GetMax(vs[i]) : i \in 1..Len(vs)})

findNextHeightInAirspacesAtOrAbove(vs, height) ==
    LET above == {x \in {GetMin(vs[i]) : i \in 1..Len(vs)}
                          \cup {GetMax(vs[i]) : i \in 1..Len(vs)} : x >= height}
    IN  IF above = {} THEN None ELSE Min(above)

findNextHeightInAirspaces(vs, height) ==
    LET above == {x \in {GetMin(vs[i]) : i \in 1..Len(vs)}
                          \cup {GetMax(vs[i]) : i \in 1..Len(vs)} : x > height}
    IN  IF above = {} THEN None ELSE Min(above)

RECURSIVE NearestFrom(_, _, _, _)
NearestFrom(vs, list, k, best) ==
    IF k > Len(list) THEN best
    ELSE NearestFrom(vs, list, k + 1,
             IF best = None \/ vs[list[k]].distance < vs[best].distance
             THEN list[k] ELSE best)

RECURSIVE NearestLastFrom(_, _, _, _)
NearestLastFrom(vs, list, k, best) ==
    IF k > Len(list) THEN best
    ELSE NearestLastFrom(vs, list, k + 1,
             IF best = None \/ vs[list[k]].distance <= vs[best].distance
             THEN list[k] ELSE best)

findNearestAirspaceLastWins(vs, list) == NearestLastFrom(vs, list, 1, None)

findNearestAirspace(vs, list) == NearestFrom(vs, list, 1, None)

RECURSIVE FarestFrom(_, _, _, _)
FarestFrom(vs, list, k, best) ==
    IF k > Len(list) THEN best
    ELSE FarestFrom(vs, list, k + 1,
             IF best = None \/ vs[list[k]].distance > vs[best].distance
             THEN list[k] ELSE best)

findFarestAirspaceAsNearest(vs, list) == NearestFrom(vs, list, 1, None)

findFarestAirspace(vs, list) == FarestFrom(vs, list, 1, None)

\* dict.values() of a map built in ascending key order
Values(m) == LET hs == sorted(DOMAIN m) IN [i \in 1..Len(hs) |-> m[hs[i]]]


(***************************************************************************)
(* dumpPoint: the sweep and the compaction passes as functions             *)
(***************************************************************************)
\* convert.py:212-224  the vector chosen for altitude height (None: no vector there)
NearestInHeight(vs, height) ==
    LET inHeight == findAirspacesInHeight(vs, height)
        inside   == findAirspacesInside(vs, inHeight)
    IN  IF Len(inside) # 0 THEN findNearestAirspace(vs, inside)
                           ELSE findNearestAirspace(vs, inHeight)

\* convert.py:234-235  sortedAirspaces[h] = nearestAirspace, unless it is None
RecordBand(m, height, nearest) ==
    IF nearest # None
    THEN [x \in DOMAIN m \cup {height} |-> IF x = height THEN nearest ELSE m[x]]
    ELSE m

\* Pass 1 variant that compares every band with the lowest band
Pass1AgainstFirst(vs, m) ==
    LET hs == sorted(DOMAIN m)
    IN  IF Len(hs) = 0 THEN EmptyMap
        ELSE LET keep == {hs[1]} \cup
                         {hs[i + 1] : i \in {j \in 1..(Len(hs) - 1) :
                              vs[m[hs[1]]].airspace # vs[m[hs[j + 1]]].airspace}}
             IN  [x \in keep |-> m[x]]

\* convert.py:243-267  "Eliminate all subsequent identical airspaces"
Pass1(vs, m) ==
    LET hs == sorted(DOMAIN m)
    IN  IF Len(hs) = 0 THEN EmptyMap
        ELSE LET keep == {hs[1]} \cup
                         {hs[i + 1] : i \in {j \in 1..(Len(hs) - 1) :
                              vs[m[hs[j]]].airspace # vs[m[hs[j + 1]]].airspace}}
             IN  [x \in keep |-> m[x]]

Abs(x) == IF x < 0 THEN -x ELSE x

\* convert.py:269-291  "Eliminate all subsequent airspaces with same angle/distance"
Pass2(vs, m) ==
    LET hs == sorted(DOMAIN m)
    IN  IF Len(hs) > levels
        THEN LET keep == {hs[1]} \cup
                         {hs[i + 1] : i \in {j \in 1..(Len(hs) - 1) :
                              \/ GetDistanceAsByte(vs[m[hs[j]]])
                                   # GetDistanceAsByte(vs[m[hs[j + 1]]])
                              \/ Abs(GetAngleAsByte(vs[m[hs[j]]])
                                     - GetAngleAsByte(vs[m[hs[j + 1]]])) > 5}}
             IN  [x \in keep |-> m[x]]
        ELSE m

\* convert.py:300-301  the vector Pass 3 deletes next (None: there is none)
Farest(vs, m) == findFarestAirspace(vs, findAirspacesNotInside(vs, Values(m)))

\* convert.py:308-315  the map without the entries that hold vector far
RemoveVector(m, far) == [x \in {k \in DOMAIN m : m[k] # far} |-> m[x]]

PadCountShort(n) == levels - n - 1

\* convert.py:333  range(levels - len(compactAirspaces))
PadCount(n) == levels - n

\* output[offset .. offset+3] = bytes  (offset is 0-based)
Poke(buf, off, bytes) ==
    [i \in 1..Len(buf) |->
        IF i - 1 >= off /\ i - 1 < off + Len(bytes) THEN bytes[i - off] ELSE buf[i]]

(***************************************************************************)
(* dumpPoint: the inputs                                                   *)
(***************************************************************************)
\* what the Geometry Provider reports for one airspace at the point; the distance
\* of an inside vector also shrinks with the airspace's index (see MkAvs), so that
\* several inside vectors of one point differ in their distance byte
Profiles == << [distance |-> 640,  angle |-> 0,   inside |-> FALSE],
               [distance |-> 1280, angle |-> 90,  inside |-> FALSE],
               [distance |-> 2560, angle |-> 180, inside |-> TRUE] >>

Layouts == {"stacked", "nested", "mixed"}

\* floor and ceiling of airspace i of n, in units of AltStep:
\*   stacked  band i lies on top of band i-1
\*   nested   band i lies inside band i-1
\*   mixed    band 2 lies inside band 1, the others are stacked on top of band 1
BandOf(n, layout, i) ==
    CASE layout = "stacked" -> <<i - 1, i>>
      [] layout = "nested"  -> <<i - 1, 2 * n - i>>
      [] OTHER              -> IF i = 1 THEN <<0, 3>>
                               ELSE IF i = 2 THEN <<1, 2>>
                               ELSE <<i, i + 1>>

MkAvs(n, layout, p) ==
    [i \in 1..n |->
        [airspace |-> i,
         floor    |-> BandOf(n, layout, i)[1] * AltStep,
         ceil     |-> BandOf(n, layout, i)[2] * AltStep,
         floorAGL |-> (i = 1),
         ceilAGL  |-> FALSE,
         distance |-> IF Profiles[p[i]].inside
                      THEN Profiles[p[i]].distance - 64 * i
                      ELSE Profiles[p[i]].distance,
         angle    |-> Profiles[p[i]].angle,
         inside   |-> Profiles[p[i]].inside]]

BufLen == BufCells * levels * sizeof_level

PointIdle ==
    /\ avs = <<>> /\ output = <<>> /\ offset0 = 0 /\ offset = 0 /\ pc = "idle"
    /\ h = None /\ sortedAirspaces = EmptyMap /\ compactAirspaces = EmptyMap
    /\ written = {} /\ exitStatus = None

(***************************************************************************)
(* dumpPoint: the steps                                                    *)
(***************************************************************************)
hMax == findHighestHeightInAirspaces(avs)

\* convert.py:209-237  one iteration of the altitude sweep
SweepStep ==
    /\ pc = "sweep"
    /\ h # None /\ h < hMax
    /\ sortedAirspaces' = RecordBand(sortedAirspaces, h, NearestInHeight(avs, h))
    /\ h' = findNextHeightInAirspaces(avs, h)
    /\ UNCHANGED <<avs, output, offset0, offset, pc, compactAirspaces, written, exitStatus>>
    /\ UNCHANGED <<dumpVars, codecVars>>

\* convert.py:209  the loop condition fails
SweepEnd ==
    /\ pc = "sweep"
    /\ ~(h # None /\ h < hMax)
    /\ pc' = "pass1"
    /\ UNCHANGED <<avs, output, offset0, offset, h, sortedAirspaces, compactAirspaces,
                   written, exitStatus>>
    /\ UNCHANGED <<dumpVars, codecVars>>

\* convert.py:243-267
DoPass1 ==
    /\ pc = "pass1"
    /\ compactAirspaces' = Pass1(avs, sortedAirspaces)
    /\ sortedAirspaces' = compactAirspaces'
    /\ pc' = "pass2"
    /\ UNCHANGED <<avs, output, offset0, offset, h, written, exitStatus>>
    /\ UNCHANGED <<dumpVars, codecVars>>

\* convert.py:269-291
DoPass2 ==
    /\ pc = "pass2"
    /\ compactAirspaces' = Pass2(avs, sortedAirspaces)
    /\ pc' = "pass3"
    /\ UNCHANGED <<avs, output, offset0, offset, h, sortedAirspaces, written, exitStatus>>
    /\ UNCHANGED <<dumpVars, codecVars>>

\* convert.py:298-315  one iteration of the trimming loop that deletes a vector
Pass3Remove ==
    /\ pc = "pass3"
    /\ Cardinality(DOMAIN compactAirspaces) > levels
    /\ Farest(avs, compactAirspaces) # None
    /\ compactAirspaces' = RemoveVector(compactAirspaces, Farest(avs, compactAirspaces))
    /\ UNCHANGED <<avs, output, offset0, offset, pc, h, sortedAirspaces, written, exitStatus>>
    /\ UNCHANGED <<dumpVars, codecVars>>

\* convert.py:302-304  "Too much airspaces and none is far away": sys.exit(1)
Pass3Fatal ==
    /\ pc = "pass3"
    /\ Cardinality(DOMAIN compactAirspaces) > levels
    /\ Farest(avs, compactAirspaces) = None
    /\ pc' = "fatal"
    /\ exitStatus' = 1
    /\ UNCHANGED <<avs, output, offset0, offset, h, sortedAirspaces, compactAirspaces, written>>
    /\ UNCHANGED <<dumpVars, codecVars>>

\* convert.py:298  the loop condition fails
Pass3End ==
    /\ pc = "pass3"
    /\ ~(Cardinality(DOMAIN compactAirspaces) > levels)
    /\ pc' = "write"
    /\ UNCHANGED <<avs, output, offset0, offset, h, sortedAirspaces, compactAirspaces,
                   written, exitStatus>>
    /\ UNCHANGED <<dumpVars, codecVars>>

\* number of level slots the write loops have filled so far
SlotsDone == (offset - offset0) \div sizeof_level

\* convert.py:322-327  one iteration of the loop over the surviving heights
WriteEntry ==
    /\ pc = "write"
    /\ LET heights == sorted(DOMAIN compactAirspaces)
       IN  /\ SlotsDone < Len(heights)
           /\ output' = Poke(output, offset,
                             GetBytes(avs[compactAirspaces[heights[SlotsDone + 1]]]))
    /\ written' = written \cup {offset + k : k \in 0..(sizeof_level - 1)}
    /\ offset' = offset + sizeof_level
    /\ UNCHANGED <<avs, offset0, pc, h, sortedAirspaces, compactAirspaces, exitStatus>>
    /\ UNCHANGED <<dumpVars, codecVars>>

\* convert.py:323  the loop over the heights is exhausted
WriteEnd ==
    /\ pc = "write"
    /\ SlotsDone >= Cardinality(DOMAIN compactAirspaces)
    /\ pc' = "pad"
    /\ UNCHANGED <<avs, output, offset0, offset, h, sortedAirspaces, compactAirspaces,
                   written, exitStatus>>
    /\ UNCHANGED <<dumpVars, codecVars>>

\* convert.py:332-336  one iteration of "Fill up with empty Airspaces"
PadEntry ==
    /\ pc = "pad"
    /\ SlotsDone - Cardinality(DOMAIN compactAirspaces)
           < PadCount(Cardinality(DOMAIN compactAirspaces))
    /\ output' = Poke(output, offset, EmptyBytes)
    /\ written' = written \cup {offset + k : k \in 0..(sizeof_level - 1)}
    /\ offset' = offset + sizeof_level
    /\ UNCHANGED <<avs, offset0, pc, h, sortedAirspaces, compactAirspaces, exitStatus>>
    /\ UNCHANGED <<dumpVars, codecVars>>

\* convert.py:333  the padding loop is exhausted: dumpPoint returns
PadEnd ==
    /\ pc = "pad"
    /\ ~(SlotsDone - Cardinality(DOMAIN compactAirspaces)
           < PadCount(Cardinality(DOMAIN compactAirspaces)))
    /\ pc' = "done"
    /\ UNCHANGED <<avs, output, offset0, offset, h, sortedAirspaces, compactAirspaces,
                   written, exitStatus>>
    /\ UNCHANGED <<dumpVars, codecVars>>

DumpIdle ==
    /\ dpc = "idle" /\ world = [lo |-> 0, six |-> None] /\ numPoints = 0
    /\ force = FALSE /\ fileExists = FALSE /\ fileData = <<>> /\ f = FALSE
    /\ opened = FALSE /\ dout = <<>> /\ isEmpty = TRUE /\ qi = 0 /\ ri = 0
    /\ calls = 0 /\ fsOps = 0

CodecIdle ==
    /\ cpc = "idle" /\ cFt = 0 /\ cAGL = FALSE /\ cRaw = 0 /\ cDec = <<0, FALSE>>
    /\ bDeg = 0 /\ bInside = FALSE

\* convert.py:177-208  dumpPoint is entered: the vectors are collected, the maps are
\* empty, h is the lowest floor
InitPoint ==
    /\ \E n \in 0..MaxAvs : \E layout \in Layouts :
         \E p \in [1..n -> 1..Len(Profiles)] :
            avs = MkAvs(n, layout, p)
    /\ output = [i \in 1..BufLen |-> Fill]
    /\ offset0 = OffsetCell * levels * sizeof_level
    /\ offset = offset0
    /\ pc = "sweep"
    /\ h = findLowestHeightInAirspaces(avs)
    /\ sortedAirspaces = EmptyMap
    /\ compactAirspaces = EmptyMap
    /\ written = {}
    /\ exitStatus = None
    /\ DumpIdle
    /\ CodecIdle

NextPoint ==
    \/ SweepStep
    \/ SweepEnd
    \/ DoPass1
    \/ DoPass2
    \/ Pass3Remove
    \/ Pass3Fatal
    \/ Pass3End
    \/ WriteEntry
    \/ WriteEnd
    \/ PadEntry
    \/ PadEnd

SpecPoint == InitPoint /\ [][NextPoint]_vars

(***************************************************************************)
(* dumpPoint as one function of the candidate vectors (used by dump, and   *)
(* to look back at earlier stages from a later state)                      *)
(***************************************************************************)
RECURSIVE SweepFrom(_, _, _)
\* convert.py:203-237
SweepFrom(vs, height, m) ==
    IF height # None /\ height < findHighestHeightInAirspaces(vs)
    THEN SweepFrom(vs, findNextHeightInAirspaces(vs, height),
                   RecordBand(m, height, NearestInHeight(vs, height)))
    ELSE m

SweepMap(vs) == SweepFrom(vs, findLowestHeightInAirspaces(vs), EmptyMap)

RECURSIVE Pass3(_, _)
\* convert.py:297-315  the whole trimming loop
Pass3(vs, m) ==
    IF Cardinality(DOMAIN m) > levels
    THEN IF Farest(vs, m) = None
         THEN [fatal |-> TRUE, map |-> m]
         ELSE Pass3(vs, RemoveVector(m, Farest(vs, m)))
    ELSE [fatal |-> FALSE, map |-> m]

RECURSIVE Flatten(_)
Flatten(ss) == IF ss = <<>> THEN <<>> ELSE Head(ss) \o Flatten(Tail(ss))

\* convert.py:321-336  the levels*sizeof_level bytes of a point's record
RecordBytes(vs, m) ==
    LET heights == sorted(DOMAIN m)
    IN  Flatten([i \in 1..Len(heights) |-> GetBytes(vs[m[heights[i]]])])
        \o Flatten([i \in 1..PadCount(Len(heights)) |-> EmptyBytes])

\* convert.py:177-336  [fatal |-> sys.exit(1) was raised, bytes |-> the record written]
DumpPointResult(vs) ==
    LET r == Pass3(vs, Pass2(vs, Pass1(vs, SweepMap(vs))))
    IN  IF r.fatal THEN [fatal |-> TRUE, bytes |-> <<>>]
        ELSE [fatal |-> FALSE, bytes |-> RecordBytes(vs, r.map)]

(***************************************************************************)
(* Claims about dumpPoint (checked under SpecPoint)                        *)
(***************************************************************************)
\* the buffer positions (0-based) of the record dumpPoint was asked to write
Slot == offset0 .. (offset0 + levels * sizeof_level - 1)

OutsideSlotUnchanged == \A i \in 1..Len(output) : (i - 1) \notin Slot => output[i] = Fill

\* C1 as stated: for any candidate set, when dumpPoint has ended it has written
\* exactly the levels*sizeof_level = 20 bytes at [offset, offset+20) and has left
\* every other byte of the buffer unchanged.
C1_AlwaysWrites20 ==
    pc \in {"done", "fatal"} => (written = Slot /\ OutsideSlotUnchanged)

\* C1 amended: at every moment dumpPoint has written only inside [offset, offset+20)
\* and has left every other byte unchanged, and whenever it returns (Pass 3 did not
\* abort) it has written exactly those 20 bytes.
C1_Writes20WhenItReturns ==
    /\ written \subseteq Slot
    /\ OutsideSlotUnchanged
    /\ pc = "done" => written = Slot

\* C1 witness: dumpPoint returned after writing both real entries and padding
C1_Witness ==
    /\ pc = "done"
    /\ Cardinality(DOMAIN compactAirspaces) \in 1..(levels - 1)
    /\ written = Slot

\* C2: every entry a Pass 3 iteration removes has inside = FALSE.
C2_Pass3RemovesOnlyOutside ==
    [][pc = "pass3" =>
          \A k \in DOMAIN compactAirspaces :
              k \notin DOMAIN compactAirspaces' => ~avs[compactAirspaces[k]].inside]_vars

\* C2 witness: Pass 3 has removed entries of a map that also holds inside entries
C2_Witness ==
    /\ pc = "write"
    /\ DOMAIN compactAirspaces # DOMAIN Pass2(avs, sortedAirspaces)
    /\ \E k \in DOMAIN compactAirspaces : avs[compactAirspaces[k]].inside

NoOutsideLeft(m) == \A k \in DOMAIN m : avs[m[k]].inside

\* C3: when a Pass 3 iteration finds more than N entries and no inside = FALSE
\* entry, dumpPoint aborts with exit status 1, removes no entry, and the buffer
\* holds no byte of the point's record (nothing was written).
C3_FatalWhenOnlyInsideLeft ==
    /\ [][(pc = "pass3" /\ Cardinality(DOMAIN compactAirspaces) > levels
              /\ NoOutsideLeft(compactAirspaces))
          => (/\ pc' = "fatal"
              /\ exitStatus' = 1
              /\ compactAirspaces' = compactAirspaces
              /\ output' = output
              /\ written' = {})]_vars
    /\ [](pc = "fatal" =>
            /\ exitStatus = 1
            /\ written = {}
            /\ \A i \in 1..Len(output) : output[i] = Fill)

\* C3 witness: dumpPoint aborted with more than N inside entries left
C3_Witness ==
    /\ pc = "fatal"
    /\ Cardinality(DOMAIN compactAirspaces) > levels
    /\ NoOutsideLeft(compactAirspaces)

\* the bytes of level slot j (1-based) of the record in the buffer
SlotBytes(j) == SubSeq(output, offset0 + (j - 1) * sizeof_level + 1,
                               offset0 + j * sizeof_level)

\* the key of m with exactly j-1 smaller keys
KeyAtRank(m, j) ==
    CHOOSE k \in DOMAIN m : Cardinality({x \in DOMAIN m : x < k}) = j - 1

\* C4: the record written holds the k surviving entries (k <= N) in its first k
\* level slots in strictly ascending order of their band altitude (slot j holds the
\* entry with j-1 lower surviving bands), followed by N-k empty descriptors; an
\* empty candidate set gives k = 0.
C4_RecordAscendingThenPadding ==
    pc = "done" =>
        LET k == Cardinality(DOMAIN compactAirspaces)
        IN  /\ k <= levels
            /\ \A j \in 1..k :
                  SlotBytes(j) =
                      GetBytes(avs[compactAirspaces[KeyAtRank(compactAirspaces, j)]])
            /\ \A j \in (k + 1)..levels : SlotBytes(j) = EmptyBytes
            /\ (avs = <<>> => k = 0)

\* C4 witness: a record with at least two different entries and at least one padding
C4_Witness ==
    /\ pc = "done"
    /\ Cardinality(DOMAIN compactAirspaces) \in 2..(levels - 1)
    /\ SlotBytes(1) # SlotBytes(2)
    /\ SlotBytes(levels) = EmptyBytes

\* number of entries of the map that entered Pass 3
EnteredPass3 == Pass2(avs, sortedAirspaces)

\* C5 as stated: when more than N entries enter Pass 3 and it does not abort, every
\* iteration removes exactly one entry and the loop stops with exactly N entries.
C5_OnePerIterationExactlyN ==
    (pc = "write" /\ Cardinality(DOMAIN EnteredPass3) > levels)
        => Cardinality(DOMAIN compactAirspaces) = levels

\* C5 amended: every Pass 3 iteration that removes something removes all the
\* entries (one per band) of one vector, which has inside = FALSE and the maximum
\* distance among the inside = FALSE entries at that moment, and nothing else; the
\* loop stops with at most N entries, and with exactly N when no vector that
\* entered Pass 3 holds more than one band.
C5_RemovesFarthestOutsideVector ==
    /\ [][(pc = "pass3" /\ compactAirspaces' # compactAirspaces) =>
            \E v \in 1..Len(avs) :
                /\ ~avs[v].inside
                /\ \E k \in DOMAIN compactAirspaces : compactAirspaces[k] = v
                /\ \A k \in DOMAIN compactAirspaces :
                       ~avs[compactAirspaces[k]].inside
                           => avs[compactAirspaces[k]].distance <= avs[v].distance
                /\ DOMAIN compactAirspaces' =
                       {k \in DOMAIN compactAirspaces : compactAirspaces[k] # v}
                /\ \A k \in DOMAIN compactAirspaces' :
                       compactAirspaces'[k] = compactAirspaces[k]]_vars
    /\ [][(pc = "pass3" /\ pc' = "write") =>
            /\ Cardinality(DOMAIN compactAirspaces) <= levels
            /\ (/\ Cardinality(DOMAIN EnteredPass3) > levels
                /\ \A k1, k2 \in DOMAIN EnteredPass3 :
                       EnteredPass3[k1] = EnteredPass3[k2] => k1 = k2)
               => Cardinality(DOMAIN compactAirspaces) = levels]_vars

\* C5 witness: seven entries of seven vectors, none inside, entered Pass 3 and
\* five are left
C5_Witness ==
    /\ pc = "write"
    /\ Cardinality(DOMAIN EnteredPass3) = levels + 2
    /\ \A k \in DOMAIN EnteredPass3 : ~avs[EnteredPass3[k]].inside
    /\ \A k1, k2 \in DOMAIN EnteredPass3 :
           EnteredPass3[k1] = EnteredPass3[k2] => k1 = k2
    /\ Cardinality(DOMAIN compactAirspaces) = levels

\* the key of m just below k
KeyBelow(m, k) == Max({x \in DOMAIN m : x < k})

AirspaceAt(m, k) == avs[m[k]].airspace

\* C6: Pass 1 keeps exactly the lowest band and every band whose airspace differs
\* from that of the band immediately below it, each with its vector; so every run
\* of bands of one airspace is left with its lowest band only, and no two
\* consecutive surviving entries reference the same airspace.
C6_Pass1CollapsesRuns ==
    [][pc = "pass1" =>
        LET m  == sortedAirspaces
            m2 == compactAirspaces'
        IN  /\ DOMAIN m2 =
                  {k \in DOMAIN m :
                      \/ \A x \in DOMAIN m : x >= k
                      \/ /\ \E x \in DOMAIN m : x < k
                         /\ AirspaceAt(m, k) # AirspaceAt(m, KeyBelow(m, k))}
            /\ \A k \in DOMAIN m2 : m2[k] = m[k]
            /\ \A k \in DOMAIN m2 :
                  (\E x \in DOMAIN m2 : x < k)
                      => AirspaceAt(m2, k) # AirspaceAt(m2, KeyBelow(m2, k))]_vars

\* C6 witness: Pass 1 has collapsed a run and has left at least three entries
C6_Witness ==
    /\ pc = "pass2"
    /\ Cardinality(DOMAIN compactAirspaces) >= 3
    /\ Cardinality(DOMAIN SweepMap(avs)) > Cardinality(DOMAIN compactAirspaces)

(***************************************************************************)
(* dump: one tile                                                          *)
(*                                                                         *)
(* Latitudes inside the tile are counted in steps of 1/(10*numPoints)      *)
(* degree, so that the quick-check grid (step 1/10) and the raster (step   *)
(* 1/numPoints) have exact coordinates; numpy.arange is taken to yield     *)
(* exactly 10 resp. numPoints values.  The geometry: all points at or      *)
(* north of latitude world.lo are within reach of one airspace, the others *)
(* see none; the points of latitude world.six (if not None) lie inside     *)
(* levels+1 airspaces stacked on top of each other.                        *)
(***************************************************************************)
\* Largest raster resolution (wantedResolution, or 10 when drawing)
MaxNumPoints == 3
\* convert.py:365-366  the quick check walks a 10 x 10 grid
quickPoints == 10

\* the bytes of a tile file left by an earlier run
OldData == <<1, 2, 3, 4>>

\* the candidate vectors of a point that is within reach of the airspaces
OneOutside == MkAvs(1, "stacked", <<1>>)
SixInside  == MkAvs(levels + 1, "stacked", [i \in 1..(levels + 1) |-> 3])

VectorsAt(w, latU) ==
    IF latU = w.six THEN SixInside
    ELSE IF latU >= w.lo THEN OneOutside
    ELSE <<>>

\* latitude (in 1/(10*numPoints) degree) of quick-check point q and raster point r
QuickLat(q)  == (q \div quickPoints) * numPoints
RasterLat(r) == (r \div numPoints) * quickPoints

\* convert.py:382-384  the offset of raster point r in the tile buffer
RasterOffset(r) ==
    ((numPoints - 1 - (r \div numPoints)) * numPoints + (r % numPoints))
        * (levels * sizeof_level)

AllZero(buf) == \A i \in 1..Len(buf) : buf[i] = 0

SkipExistingWhenForced(exists, frc) == exists /\ frc

\* convert.py:352  os.path.isfile(filename) and not force
SkipExisting(exists, frc) == exists /\ ~frc

InitDump ==
    /\ numPoints \in 1..MaxNumPoints
    /\ world \in [lo  : 0..(quickPoints * numPoints),
                  six : {None} \cup {RasterLat(r) : r \in 0..(numPoints * numPoints - 1)}]
    /\ force \in BOOLEAN
    /\ fileExists \in BOOLEAN
    /\ fileData = IF fileExists THEN OldData ELSE <<>>
    /\ dpc = "start"
    /\ f = FALSE /\ opened = FALSE /\ dout = <<>> /\ isEmpty = TRUE
    /\ qi = 0 /\ ri = 0 /\ calls = 0 /\ fsOps = 0
    /\ PointIdle
    /\ CodecIdle

\* convert.py:344-354  the file exists and force is off: return at once
DumpSkip ==
    /\ dpc = "start"
    /\ SkipExisting(fileExists, force)
    /\ dpc' = "returned"
    /\ UNCHANGED <<world, numPoints, force, fileExists, fileData, f, opened, dout,
                   isEmpty, qi, ri, calls, fsOps>>
    /\ UNCHANGED <<pointVars, codecVars>>

\* convert.py:356-364  allocate the buffer and enter the try block
DumpBegin ==
    /\ dpc = "start"
    /\ ~SkipExisting(fileExists, force)
    /\ dout' = [i \in 1..(numPoints * numPoints * levels * sizeof_level) |-> 0]
    /\ f' = FALSE
    /\ isEmpty' = TRUE
    /\ dpc' = "quick"
    /\ UNCHANGED <<world, numPoints, force, fileExists, fileData, opened, qi, ri,
                   calls, fsOps>>
    /\ UNCHANGED <<pointVars, codecVars>>

\* convert.py:387-392  the handler of KeyboardInterrupt / SystemExit
Handler ==
    /\ IF f
       THEN /\ f' = FALSE
            /\ fileExists' = FALSE
            /\ fileData' = <<>>
            /\ fsOps' = fsOps + 1
       ELSE UNCHANGED <<f, fileExists, fileData, fsOps>>
    /\ dpc' = "exited"

\* convert.py:365-372  one point of the quick check for emptiness
QuickPoint ==
    /\ dpc = "quick"
    /\ qi < quickPoints * quickPoints
    /\ calls' = calls + 1
    /\ LET r == DumpPointResult(VectorsAt(world, QuickLat(qi)))
       IN  IF r.fatal
           THEN /\ Handler
                /\ UNCHANGED <<dout, isEmpty, qi>>
           ELSE /\ dout' = Poke(dout, 0, r.bytes)
                /\ isEmpty' = (isEmpty /\ AllZero(r.bytes))
                /\ qi' = qi + 1
                /\ UNCHANGED <<dpc, f, fileExists, fileData, fsOps>>
    /\ UNCHANGED <<world, numPoints, force, opened, ri>>
    /\ UNCHANGED <<pointVars, codecVars>>

\* convert.py:374-376  after the quick check: open the file unless all was empty
QuickEnd ==
    /\ dpc = "quick"
    /\ qi = quickPoints * quickPoints
    /\ IF ~isEmpty
       THEN /\ f' = TRUE
            /\ opened' = TRUE
            /\ fileExists' = TRUE
            /\ fileData' = <<>>
            /\ fsOps' = fsOps + 1
            /\ dpc' = "raster"
       ELSE /\ dpc' = "final"
            /\ UNCHANGED <<f, opened, fileExists, fileData, fsOps>>
    /\ UNCHANGED <<world, numPoints, force, dout, isEmpty, qi, ri, calls>>
    /\ UNCHANGED <<pointVars, codecVars>>

\* convert.py:377-385  one point of the raster
RasterPoint ==
    /\ dpc = "raster"
    /\ ri < numPoints * numPoints
    /\ calls' = calls + 1
    /\ LET r == DumpPointResult(VectorsAt(world, RasterLat(ri)))
       IN  IF r.fatal
           THEN /\ Handler
                /\ UNCHANGED <<dout, ri>>
           ELSE /\ dout' = Poke(dout, RasterOffset(ri), r.bytes)
                /\ ri' = ri + 1
                /\ UNCHANGED <<dpc, f, fileExists, fileData, fsOps>>
    /\ UNCHANGED <<world, numPoints, force, opened, isEmpty, qi>>
    /\ UNCHANGED <<pointVars, codecVars>>

\* convert.py:377  the raster loops are exhausted: leave the try block
RasterEnd ==
    /\ dpc = "raster"
    /\ ri = numPoints * numPoints
    /\ dpc' = "final"
    /\ UNCHANGED <<world, numPoints, force, fileExists, fileData, f, opened, dout,
                   isEmpty, qi, ri, calls, fsOps>>
    /\ UNCHANGED <<pointVars, codecVars>>

\* convert.py:394-400  scan the whole buffer; an empty one is only reported
FinalCheck ==
    /\ dpc = "final"
    /\ isEmpty' = AllZero(dout)
    /\ dpc' = IF AllZero(dout) THEN "returned" ELSE "write"
    /\ UNCHANGED <<world, numPoints, force, fileExists, fileData, f, opened, dout,
                   qi, ri, calls, fsOps>>
    /\ UNCHANGED <<pointVars, codecVars>>

\* convert.py:401-404  f.write(bytes(output)); f.close()
FinalWrite ==
    /\ dpc = "write"
    /\ IF f
       THEN /\ fileData' = dout
            /\ f' = FALSE
            /\ fsOps' = fsOps + 1
            /\ dpc' = "returned"
       ELSE /\ dpc' = "crashed"
            /\ UNCHANGED <<fileData, f, fsOps>>
    /\ UNCHANGED <<world, numPoints, force, fileExists, opened, dout, isEmpty, qi, ri,
                   calls>>
    /\ UNCHANGED <<pointVars, codecVars>>

\* convert.py:362-392  KeyboardInterrupt raised inside the try block
InterruptInTry ==
    /\ dpc \in {"quick", "raster"}
    /\ Handler
    /\ UNCHANGED <<world, numPoints, force, opened, dout, isEmpty, qi, ri, calls>>
    /\ UNCHANGED <<pointVars, codecVars>>

\* convert.py:344-360, 394-404  KeyboardInterrupt raised outside the try block:
\* nothing catches it, the process ends as it is
InterruptOutsideTry ==
    /\ dpc \in {"start", "final", "write"}
    /\ dpc' = "exited"
    /\ UNCHANGED <<world, numPoints, force, fileExists, fileData, f, opened, dout,
                   isEmpty, qi, ri, calls, fsOps>>
    /\ UNCHANGED <<pointVars, codecVars>>

NextDump ==
    \/ DumpSkip
    \/ DumpBegin
    \/ QuickPoint
    \/ QuickEnd
    \/ RasterPoint
    \/ RasterEnd
    \/ FinalCheck
    \/ FinalWrite
    \/ InterruptInTry
    \/ InterruptOutsideTry

SpecDump == InitDump /\ [][NextDump]_vars

(***************************************************************************)
(* Claims about dump (checked under SpecDump)                              *)
(***************************************************************************)
\* C7: a run of dump that finds the file present with force off ends at once and
\* makes zero writes: no point is encoded, the file is not opened, truncated,
\* written or removed, and its bytes stay as they were; a run that has ended
\* takes no further step.
C7_ExistingFileUntouched ==
    [][/\ (dpc = "start" /\ fileExists /\ ~force) =>
              /\ dpc' \in {"returned", "exited"}
              /\ calls' = 0 /\ fsOps' = 0
              /\ ~f' /\ ~opened'
              /\ fileExists' /\ fileData' = OldData
       /\ dpc \notin {"returned", "exited", "crashed"}]_vars

\* C7 witness: dump returned from the skip with the old file in place
C7_Witness ==
    /\ dpc = "returned"
    /\ fileExists /\ ~force
    /\ calls = 0 /\ fsOps = 0 /\ ~opened
    /\ fileData = OldData

\* C8: when an interruption (KeyboardInterrupt, SystemExit) ends dump after the
\* tile file was opened and before it was completely written and closed, the file
\* has been removed.
C8_InterruptRemovesPartialFile ==
    (dpc = "exited" /\ opened) => ~fileExists

\* C9: whenever dump returns with an all-zero buffer, no file of the tile is on
\* disk as a result of the run: the run has not created one.
C9_NoFileForEmptyTile ==
    (dpc = "returned" /\ dout # <<>> /\ AllZero(dout)) => ~(opened /\ fileExists)

(***************************************************************************)
(* The floor byte: encoded by AirspaceVector.getBytes, decoded by main     *)
(***************************************************************************)
\* Floor altitudes tried: 0, 125, 250, ... , MaxFloorSteps * 125 ft
MaxFloorSteps == 256

DecodeFloorFrom127(raw) ==
    LET agl == raw >= 127
    IN  << (IF agl THEN raw - 128 ELSE raw) * 250, agl >>

\* convert.py:532-543  <<floor in ft, floor is AGL>> of a floor byte
DecodeFloor(raw) ==
    LET agl == raw > 127
    IN  << (IF agl THEN raw - 128 ELSE raw) * 250, agl >>

InitCodec ==
    /\ cFt \in {k * 125 : k \in 0..MaxFloorSteps}
    /\ cAGL \in BOOLEAN
    /\ cpc = "start"
    /\ cRaw = 0
    /\ cDec = <<0, FALSE>>
    /\ bDeg = 0 /\ bInside = FALSE
    /\ PointIdle
    /\ DumpIdle

\* AirspaceVector.getBytes(): byte 0 of the level
EncodeFloor ==
    /\ cpc = "start"
    /\ cRaw' = EncodeAlt(cFt, cAGL)
    /\ cpc' = "encoded"
    /\ UNCHANGED <<cFt, cAGL, cDec, bDeg, bInside>>
    /\ UNCHANGED <<pointVars, dumpVars>>

\* convert.py:532-543  main decodes the byte again
DecodeStep ==
    /\ cpc = "encoded"
    /\ cDec' = DecodeFloor(cRaw)
    /\ cpc' = "decoded"
    /\ UNCHANGED <<cFt, cAGL, cRaw, bDeg, bInside>>
    /\ UNCHANGED <<pointVars, dumpVars>>

NextCodec ==
    \/ EncodeFloor
    \/ DecodeStep

SpecCodec == InitCodec /\ [][NextCodec]_vars

\* C10: for every floor altitude that is a multiple of 250 ft in [0, 31750] and
\* either reference, the decoded floor byte gives the same reference and an
\* altitude within 125 ft of the original; the byte itself is in 0..255.
C10_FloorRoundTrip ==
    (cpc = "decoded" /\ cFt % 250 = 0 /\ cFt >= 0 /\ cFt <= 31750) =>
        /\ cRaw \in 0..255
        /\ cDec[2] = cAGL
        /\ cDec[1] - cFt <= 125
        /\ cFt - cDec[1] <= 125

\* C10 witness: the highest floor of the range, MSL, has made the round trip
C10_Witness ==
    /\ cpc = "decoded"
    /\ cFt = 31750
    /\ ~cAGL
    /\ cDec = <<31750, FALSE>>

(***************************************************************************)
(* Pass 2 on bands that lie close together in bearing                      *)
(***************************************************************************)
MaxBands == 6

\* what the Geometry Provider reports for an airspace of the stack: three bearings
\* whose bytes are 0, 4 and 8 at one distance byte, and one other distance byte
NearProfiles == << [distance |-> 640,  angle |-> 0],
                   [distance |-> 640,  angle |-> 12],
                   [distance |-> 640,  angle |-> 24],
                   [distance |-> 1280, angle |-> 12] >>

\* convert.py:191-196  n airspaces stacked on each other, none of them containing
\* the point
MkStack(n, p) ==
    [i \in 1..n |->
        [airspace |-> i,
         floor    |-> (i - 1) * AltStep,
         ceil     |-> i * AltStep,
         floorAGL |-> (i = 1),
         ceilAGL  |-> FALSE,
         distance |-> NearProfiles[p[i]].distance,
         angle    |-> NearProfiles[p[i]].angle,
         inside   |-> FALSE]]

InitPass2 ==
    /\ \E n \in 0..MaxBands : \E p \in [1..n -> 1..Len(NearProfiles)] :
            avs = MkStack(n, p)
    /\ output = [i \in 1..BufLen |-> Fill]
    /\ offset0 = OffsetCell * levels * sizeof_level
    /\ offset = offset0
    /\ pc = "sweep"
    /\ h = findLowestHeightInAirspaces(avs)
    /\ sortedAirspaces = EmptyMap
    /\ compactAirspaces = EmptyMap
    /\ written = {}
    /\ exitStatus = None
    /\ DumpIdle
    /\ CodecIdle

\* convert.py:203-291  dumpPoint up to the end of Pass 2
NextPass2 ==
    \/ SweepStep
    \/ SweepEnd
    \/ DoPass1
    \/ DoPass2

SpecPass2 == InitPass2 /\ [][NextPass2]_vars

DistByteAt(m, k) == GetDistanceAsByte(avs[m[k]])

AngleByteAt(m, k) == GetAngleAsByte(avs[m[k]])

\* band k of map m has the distance byte of band j and a bearing byte at most 5
\* away from that of band j
NearBand(m, k, j) ==
    /\ DistByteAt(m, k) = DistByteAt(m, j)
    /\ Abs(AngleByteAt(m, k) - AngleByteAt(m, j)) <= 5

\* C11 as stated: Pass 2 changes the map only when the Pass-1 result has more than
\* levels entries, and then a band is dropped exactly when its distance byte equals
\* that of the last band below it that survived Pass 2 and its bearing byte is at
\* most 5 away from that survivor's.
C11_PartnerIsLastSurvivor ==
    [][pc = "pass2" =>
        LET m == sortedAirspaces
            c == compactAirspaces'
        IN  IF Cardinality(DOMAIN m) > levels
            THEN /\ DOMAIN c \subseteq DOMAIN m
                 /\ \A k \in DOMAIN c : c[k] = m[k]
                 /\ \A k \in DOMAIN m :
                       k \notin DOMAIN c <=>
                          /\ \E x \in DOMAIN m : x < k
                          /\ NearBand(m, k, KeyBelow(c, k))
            ELSE c = m]_vars

\* what Pass 2 does instead: the partner of a band is the band immediately below
\* it in the Pass-1 result, whether or not Pass 2 dropped that band, so a chain of
\* bands that each lie within 5 of the one below is dropped whole.
C11_PartnerIsBandBelow ==
    [][pc = "pass2" =>
        LET m == sortedAirspaces
            c == compactAirspaces'
        IN  IF Cardinality(DOMAIN m) > levels
            THEN /\ DOMAIN c \subseteq DOMAIN m
                 /\ \A k \in DOMAIN c : c[k] = m[k]
                 /\ \A k \in DOMAIN m :
                       k \notin DOMAIN c <=>
                          /\ \E x \in DOMAIN m : x < k
                          /\ NearBand(m, k, KeyBelow(m, k))
            ELSE c = m]_vars

(***************************************************************************)
(* The altitude sweep on arbitrary bands                                   *)
(***************************************************************************)
MaxSweepAvs == 2

\* floors and ceilings, in units of AltStep
SweepAlts == 0..4

SweepBands == {b \in SweepAlts \X SweepAlts : b[1] < b[2]}

SweepDistances == {640, 1280}

\* convert.py:191-196  n airspaces with any bands (overlapping, nested, apart),
\* any of them containing the point
MkSweepAvs(n, b, d, ins) ==
    [i \in 1..n |->
        [airspace |-> i,
         floor    |-> b[i][1] * AltStep,
         ceil     |-> b[i][2] * AltStep,
         floorAGL |-> FALSE,
         ceilAGL  |-> FALSE,
         distance |-> d[i],
         angle    |-> 0,
         inside   |-> ins[i]]]

InitSweep ==
    /\ \E n \in 0..MaxSweepAvs :
         \E b \in [1..n -> SweepBands] : \E d \in [1..n -> SweepDistances] :
           \E ins \in [1..n -> BOOLEAN] :
              avs = MkSweepAvs(n, b, d, ins)
    /\ output = [i \in 1..BufLen |-> Fill]
    /\ offset0 = OffsetCell * levels * sizeof_level
    /\ offset = offset0
    /\ pc = "sweep"
    /\ h = findLowestHeightInAirspaces(avs)
    /\ sortedAirspaces = EmptyMap
    /\ compactAirspaces = EmptyMap
    /\ written = {}
    /\ exitStatus = None
    /\ DumpIdle
    /\ CodecIdle

\* convert.py:203-237  the sweep loop
NextSweep ==
    \/ SweepStep
    \/ SweepEnd

\* dumpPoint is sequential code without waits: a loop that can take a step takes it
SpecSweep == InitSweep /\ [][NextSweep]_vars /\ WF_vars(NextSweep)

\* the vectors whose band contains altitude x
Covering(x) == {i \in 1..Len(avs) : avs[i].floor <= x /\ x < avs[i].ceil}

\* the inside vectors among them if there is one, otherwise all of them
Pool(x) ==
    IF \E i \in Covering(x) : avs[i].inside
    THEN {i \in Covering(x) : avs[i].inside}
    ELSE Covering(x)

\* the vector of Pool(x) of minimum distance, the first in input order among equals
Chosen(x) ==
    CHOOSE i \in Pool(x) :
        \A j \in Pool(x) :
            \/ avs[i].distance < avs[j].distance
            \/ avs[i].distance = avs[j].distance /\ i <= j

\* C12: for every altitude h the sweep visits, the vector recorded for h is, among
\* the vectors whose band contains h, the inside vector of minimum distance if one
\* of them is inside and otherwise the vector of minimum distance, the first in
\* input order on a distance tie; if no band contains h nothing is recorded.
C12_SweepRecordsNearest ==
    [][(pc = "sweep" /\ pc' = "sweep") =>
          IF Covering(h) = {}
          THEN sortedAirspaces' = sortedAirspaces
          ELSE /\ DOMAIN sortedAirspaces' = DOMAIN sortedAirspaces \cup {h}
               /\ sortedAirspaces'[h] = Chosen(h)
               /\ \A k \in DOMAIN sortedAirspaces :
                      k # h => sortedAirspaces'[k] = sortedAirspaces[k]]_vars

\* C12 witness: the sweep has recorded an inside vector at an altitude where an
\* outside vector is nearer
C12_Witness ==
    /\ pc = "sweep"
    /\ \E k \in DOMAIN sortedAirspaces :
          /\ avs[sortedAirspaces[k]].inside
          /\ \E j \in Covering(k) :
                ~avs[j].inside /\ avs[j].distance < avs[sortedAirspaces[k]].distance

\* the floors and ceilings of the candidate vectors
Breakpoints ==
    {avs[i].floor : i \in 1..Len(avs)} \cup {avs[i].ceil : i \in 1..Len(avs)}

DecodeAngle(raw) ==
    LET inside == raw > 127
    IN  << (IF inside THEN raw - 128 ELSE raw) * 3, inside >>

\* a vector at bearing deg whose other fields do not matter to byte 2
BearingVector(deg, ins) ==
    [airspace |-> 1, floor |-> 0, ceil |-> AltStep, floorAGL |-> FALSE,
     ceilAGL |-> FALSE, distance |-> 640, angle |-> deg, inside |-> ins]

\* every whole bearing of [0, 360) degrees, with either inside flag
InitBearing ==
    /\ bDeg \in 0..359
    /\ bInside \in BOOLEAN
    /\ cpc = "start"
    /\ cFt = 0 /\ cAGL = FALSE
    /\ cRaw = 0
    /\ cDec = <<0, FALSE>>
    /\ PointIdle
    /\ DumpIdle

\* AirspaceVector.getBytes(): byte 2 of the level
EncodeBearing ==
    /\ cpc = "start"
    /\ cRaw' = GetBytes(BearingVector(bDeg, bInside))[3]
    /\ cpc' = "encoded"
    /\ UNCHANGED <<cFt, cAGL, cDec, bDeg, bInside>>
    /\ UNCHANGED <<pointVars, dumpVars>>

\* convert.py:554-561  main decodes the byte again
DecodeBearing ==
    /\ cpc = "encoded"
    /\ cDec' = DecodeAngle(cRaw)
    /\ cpc' = "decoded"
    /\ UNCHANGED <<cFt, cAGL, cRaw, bDeg, bInside>>
    /\ UNCHANGED <<pointVars, dumpVars>>

NextBearing ==
    \/ EncodeBearing
    \/ DecodeBearing

SpecBearing == InitBearing /\ [][NextBearing]_vars

\* C14: for every bearing in [0, 360) degrees the encoded bearing value, before
\* the inside flag is added, lies in 0..119, and the decoded bearing is below
\* 360 degrees.
C14_BearingBelow360 ==
    cpc = "decoded" =>
        /\ GetAngleAsByte(BearingVector(bDeg, bInside)) \in 0..119
        /\ cDec[1] < 360

(***************************************************************************)
(* dump at a resolution finer than the quick check's grid                  *)
(***************************************************************************)
MaxFineNumPoints == 11

\* convert.py:338-351  a tile rastered with more than quickPoints points per degree;
\* the airspace is within reach from one of the raster's rows northwards, or from
\* nowhere in the tile
InitDumpFine ==
    /\ numPoints \in (quickPoints + 1)..MaxFineNumPoints
    /\ world \in [lo  : {RasterLat(r) : r \in 0..(numPoints * numPoints - 1)}
                           \cup {quickPoints * numPoints},
                  six : {None}]
    /\ force \in BOOLEAN
    /\ fileExists \in BOOLEAN
    /\ fileData = IF fileExists THEN OldData ELSE <<>>
    /\ dpc = "start"
    /\ f = FALSE /\ opened = FALSE /\ dout = <<>> /\ isEmpty = TRUE
    /\ qi = 0 /\ ri = 0 /\ calls = 0 /\ fsOps = 0
    /\ PointIdle
    /\ CodecIdle

SpecDumpFine == InitDumpFine /\ [][NextDump]_vars

\* a cell of the full-resolution raster has a record that is not all zero
RasterHasRecord ==
    \E r \in 0..(numPoints * numPoints - 1) :
        LET res == DumpPointResult(VectorsAt(world, RasterLat(r)))
        IN  ~res.fatal /\ ~AllZero(res.bytes)

\* C15: a run of dump that went past the existing-file test and returned has
\* written the tile file whenever at least one cell of the full-resolution raster
\* has a non-zero record: the quick check never makes it return without the file.
C15_NonEmptyTileIsPersisted ==
    (dpc = "returned" /\ calls > 0 /\ RasterHasRecord) =>
        (opened /\ fileExists /\ fileData = dout)

=============================================================================
